---- MODULE Spec2Model ----
(***************************************************************************)
(* Model of the river-profile clustering functions of                      *)
(* plot-river-clusters.py (CalculateSlope, find_nearest_idx,               *)
(* ResampleProfiles, ClusterProfiles, PlotProfilesByCluster) and of the    *)
(* runs of the scripts plot-river-clusters.py and                          *)
(* cluster-river-profiles.py.                                              *)
(*                                                                         *)
(* A table (pandas DataFrame) is a sequence of rows; a row is a record     *)
(* whose fields are the columns.  Floating-point values are modelled as    *)
(* exact rationals [nan, num, den] in lowest terms, NaN being a value of   *)
(* its own.  Python indices are 0-based, TLA+ sequences 1-based: every     *)
(* operator says which one it speaks.                                      *)
(***************************************************************************)
EXTENDS Integers, Sequences, FiniteSets, TLC

VARIABLES
    pc,                 \* position of the run: "start", "<function>_done"
    exc,                \* exception that ended the call: "none" or its type
    df,                 \* the profile table the function is given
    slope_window_size,  \* CalculateSlope: argument
    array, value, idx,  \* find_nearest_idx: arguments and returned index
    profile_len, step,  \* ResampleProfiles, ClusterProfiles: arguments
    thinned_df,         \* ResampleProfiles: rows of the sources that qualified
    data,               \* ResampleProfiles: the 2d array, a sequence of rows
    final_sources,      \* ResampleProfiles: ids of the sources that qualified
    min_corr, method,   \* ClusterProfiles: arguments
    cc,                 \* ClusterProfiles: the condensed correlations
    dd,                 \* ClusterProfiles: the distances given to linkage
    ln,                 \* ClusterProfiles: the linkage matrix, one row per merge
    cl,                 \* ClusterProfiles: the flat cluster id of each data row
    cluster_df,         \* ClusterProfiles: the table it returns
    args,               \* __main__: the parsed command-line arguments
    DataDirectory,      \* __main__: the directory prefix of every path
    fs,                 \* the files that exist, by path
    trace,              \* __main__: the stages executed so far, in order
    filter_df           \* PlotSlopeAreaAllProfiles: each cluster's slope-area rows

vars == <<pc, exc, df, slope_window_size, array, value, idx,
          profile_len, step, thinned_df, data, final_sources,
          min_corr, method, cc, dd, ln, cl, cluster_df,
          args, DataDirectory, fs, trace, filter_df>>

\* the variables of the scripts' __main__
script_vars == <<args, DataDirectory, fs, trace, filter_df>>

\* the variables of ResampleProfiles and ClusterProfiles
resample_vars == <<profile_len, step, thinned_df, data, final_sources,
                   min_corr, method, cc, dd, ln, cl, cluster_df>>

(***************************************************************************)
(* Bounds of the model.                                                    *)
(***************************************************************************)
MaxDist == 4     \* distance_from_source ranges over 0..MaxDist
MaxElev == 2     \* elevation ranges over 0..MaxElev
MaxW    == 5     \* slope_window_size ranges over 1..MaxW
MaxArr  == 3     \* find_nearest_idx: arrays of up to MaxArr samples
MaxVal  == 4     \* find_nearest_idx: samples in 0..MaxVal
MaxLen  == 3     \* ResampleProfiles: sources of up to MaxLen nodes
MaxProfileLen == 3   \* profile_len ranges over 1..MaxProfileLen
MaxStep == 2     \* step ranges over 1..MaxStep

(***************************************************************************)
(* Numbers.                                                                *)
(***************************************************************************)
Abs(x) == IF x < 0 THEN -x ELSE x
Min(a, b) == IF a <= b THEN a ELSE b
Max(a, b) == IF a >= b THEN a ELSE b

RECURSIVE GCD(_, _)
GCD(a, b) == IF b = 0 THEN a ELSE GCD(b, a % b)

\* numpy's nan
NaN == [nan |-> TRUE, num |-> 0, den |-> 1]

\* the float num/den, den # 0, in lowest terms with a positive denominator
Rat(num, den) ==
    LET g == GCD(Abs(num), Abs(den))
        sgn == IF den < 0 THEN -1 ELSE 1
    IN [nan |-> FALSE, num |-> sgn * (num \div g), den |-> sgn * (den \div g)]

\* numpy float division: 0.0/0.0 is nan
FloatDiv(num, den) == IF den = 0 THEN NaN ELSE Rat(num, den)

\* a slip that keeps the sign of the gradient
FloatAbs_Signed(x) == x

\* abs() of a float; abs(nan) is nan
FloatAbs(x) == IF x.nan THEN NaN ELSE [x EXCEPT !.num = Abs(x.num)]

RECURSIVE SumSeq(_)
SumSeq(s) == IF s = <<>> THEN 0 ELSE s[1] + SumSeq(Tail(s))

(***************************************************************************)
(* Python and numpy primitives.                                            *)
(***************************************************************************)
\* arr[start:stop] for a sequence: a negative bound counts from the end, and
\* both bounds are clamped to 0..len(arr).  start and stop are 0-based.
PySlice(arr, start, stop) ==
    LET n  == Len(arr)
        lo == IF start < 0 THEN Max(start + n, 0) ELSE Min(start, n)
        hi == IF stop < 0 THEN Max(stop + n, 0) ELSE Min(stop, n)
    IN IF lo >= hi THEN <<>> ELSE SubSeq(arr, lo + 1, hi)

\* scipy.stats.linregress(x, y)[0]: the least-squares gradient
\* cov(x, y)/var(x); a zero variance of x gives 0.0/0.0 = nan.
linregress(x, y) ==
    LET n   == Len(x)
        Sx  == SumSeq(x)
        Sy  == SumSeq(y)
        Sxx == SumSeq([k \in 1..n |-> x[k] * x[k]])
        Sxy == SumSeq([k \in 1..n |-> x[k] * y[k]])
    IN FloatDiv(n * Sxy - Sx * Sy, n * Sxx - Sx * Sx)

\* np.searchsorted(array, value, side="left") on a sorted array: the number of
\* samples strictly below value (0-based insertion index).
searchsorted(a, v) == Cardinality({j \in 1..Len(a) : a[j] < v})

(***************************************************************************)
(* Tables.                                                                 *)
(***************************************************************************)
\* df[df['id'] == id]: the rows of one source, in table order
RowsOf(t, id) == SelectSeq(t, LAMBDA r : r.id = id)

\* 0-based position of row p (1-based) among the rows of its own source
IndexInProfile(t, p) == Cardinality({q \in 1..(p - 1) : t[q].id = t[p].id})

(***************************************************************************)
(* CalculateSlope.                                                         *)
(***************************************************************************)
\* slicer = (slope_window_size - 1)/2, Python 2 integer division
slicer(W) == (W - 1) \div 2

\* a slip that regresses whatever the slice holds, as long as it has two points
WindowIsFull_AnySlice(this_slice, W) == Len(this_slice) >= 2

\* the test that decides regression or nan
WindowIsFull(this_slice, W) == Len(this_slice) = W

\* the body of the loop over the nodes: the slope of node `index` (0-based)
\* of a profile whose columns are dist and elev
NodeSlope(dist, elev, index, W) ==
    LET lo == index - slicer(W)
        hi == index + slicer(W) + 1
        x  == PySlice(dist, lo, hi)
        y  == PySlice(elev, lo, hi)
    IN IF WindowIsFull(x, W)
       THEN FloatAbs(linregress(x, y))
       ELSE NaN

\* the slopes array of one source
ProfileSlopes(t, id, W) ==
    LET rows == RowsOf(t, id)
        dist == [k \in 1..Len(rows) |-> rows[k].distance_from_source]
        elev == [k \in 1..Len(rows) |-> rows[k].elevation]
    IN [k \in 1..Len(rows) |-> NodeSlope(dist, elev, k - 1, W)]

\* the table after the loop over the ids: df.loc[df.id==id, 'slope'] = slopes
\* gives the k-th row of a source the k-th entry of its slopes array
CalculateSlopeTable(t, W) ==
    [p \in 1..Len(t) |->
        [slope |-> ProfileSlopes(t, t[p].id, W)[IndexInProfile(t, p) + 1]]
            @@ t[p]]

CalculateSlope ==
    /\ pc = "start"
    /\ df' = CalculateSlopeTable(df, slope_window_size)
    /\ pc' = "CalculateSlope_done"
    /\ UNCHANGED <<exc, slope_window_size, array, value, idx>>
    /\ UNCHANGED resample_vars
    /\ UNCHANGED script_vars

(***************************************************************************)
(* Input tables of CalculateSlope: one source with any strictly increasing *)
(* distances and any elevations, optionally followed by a short second     *)
(* source.                                                                 *)
(***************************************************************************)
RECURSIVE PtsSeqs(_)
PtsSeqs(k) ==
    IF k = 0 THEN {<<>>}
    ELSE UNION { { Append(p, [d |-> d, z |-> z]) :
                     d \in {d0 \in 0..MaxDist : k = 1 \/ d0 > p[Len(p)].d},
                     z \in 0..MaxElev }
                 : p \in PtsSeqs(k - 1) }

AllPts == UNION {PtsSeqs(k) : k \in 0..(MaxDist + 1)}

SecondPts ==
    { <<>>,
      <<[d |-> 0, z |-> 1]>>,
      <<[d |-> 0, z |-> 1], [d |-> 2, z |-> 0]>>,
      <<[d |-> 1, z |-> 0], [d |-> 2, z |-> 0], [d |-> 4, z |-> 1]>> }

MkRows(id, pts) ==
    [k \in 1..Len(pts) |->
        [id |-> id, distance_from_source |-> pts[k].d, elevation |-> pts[k].z]]

SlopeTables == {MkRows(1, p) \o MkRows(2, q) : p \in AllPts, q \in SecondPts}

InitSlope ==
    /\ pc = "start"
    /\ exc = "none"
    /\ df \in SlopeTables
    /\ slope_window_size \in 1..MaxW
    /\ array = <<>>
    /\ value = 0
    /\ idx = 0
    /\ profile_len = 0
    /\ step = 1
    /\ thinned_df = <<>>
    /\ data = <<>>
    /\ final_sources = <<>>
    /\ min_corr = [s |-> 1, q |-> 4]
    /\ method = "complete"
    /\ cc = <<>>
    /\ dd = <<>>
    /\ ln = <<>>
    /\ cl = <<>>
    /\ cluster_df = <<>>
    /\ args = <<>>
    /\ DataDirectory = ""
    /\ fs = {}
    /\ trace = <<>>
    /\ filter_df = <<>>

NextSlope == CalculateSlope

SpecSlope == InitSlope /\ [][NextSlope]_vars

(***************************************************************************)
(* Claims about CalculateSlope (checked under SpecSlope).                  *)
(***************************************************************************)
SlopeDone == pc = "CalculateSlope_done"

\* number of nodes of the source that row p belongs to
ProfileSize(t, p) == Len(RowsOf(t, t[p].id))

\* the window [i-s, i+s] of row p lies inside the index range of its source
WindowInside(t, p, W) ==
    /\ IndexInProfile(t, p) - slicer(W) >= 0
    /\ IndexInProfile(t, p) + slicer(W) <= ProfileSize(t, p) - 1

\* the least-squares gradient of the samples i-s..i+s of the source of row p,
\* taken by their indices
WindowGradient(t, p, W) ==
    LET rows  == RowsOf(t, t[p].id)
        first == IndexInProfile(t, p) - slicer(W) + 1
        m     == 2 * slicer(W) + 1
        x     == [k \in 1..m |-> rows[first + k - 1].distance_from_source]
        y     == [k \in 1..m |-> rows[first + k - 1].elevation]
    IN FloatAbs(linregress(x, y))

\* C1: after CalculateSlope, every node whose window [i-s, i+s] is not fully
\* inside its profile's index range has a missing slope (also at the low end,
\* where the slice start is negative), and every node of a profile with fewer
\* than W samples has a missing slope.
C1_EdgeNodesMissing ==
    SlopeDone =>
        \A p \in 1..Len(df) :
            /\ ~WindowInside(df, p, slope_window_size) => df[p].slope = NaN
            /\ ProfileSize(df, p) < slope_window_size => df[p].slope = NaN

\* a profile long enough for an odd window: its first node's slice start is
\* negative and wraps, its middle nodes are regressed, its edge is missing
C1_Witness ==
    /\ SlopeDone
    /\ slope_window_size = 3
    /\ \E p \in 1..Len(df) :
        /\ IndexInProfile(df, p) = 0
        /\ ProfileSize(df, p) >= 4
        /\ df[p].slope = NaN
        /\ ~df[p + 1].slope.nan

\* C2 (as claimed): after CalculateSlope, for every window size, odd or even,
\* every node whose window lies inside the profile has a defined slope equal
\* to the absolute least-squares gradient of exactly that window (stated for
\* windows of at least three samples, where that gradient exists).
C2_InteriorSlopeDefined ==
    (SlopeDone /\ slicer(slope_window_size) >= 1) =>
        \A p \in 1..Len(df) :
            WindowInside(df, p, slope_window_size) =>
                /\ ~df[p].slope.nan
                /\ df[p].slope = WindowGradient(df, p, slope_window_size)

(***************************************************************************)
(* find_nearest_idx.                                                       *)
(***************************************************************************)
\* a slip that returns the insertion index without looking at the left sample
find_nearest_idx_NoCompare(a, v) ==
    LET i == searchsorted(a, v)
    IN IF i > 0 /\ i = Len(a) THEN i - 1 ELSE i

\* a slip that compares with <= instead of <
find_nearest_idx_LessEq(a, v) ==
    LET i == searchsorted(a, v)
    IN IF i > 0 /\ (i = Len(a) \/ Abs(v - a[i]) <= Abs(v - a[i + 1]))
       THEN i - 1
       ELSE i

\* the 0-based index returned for a sorted array a and a value v; the samples
\* array[idx-1] and array[idx] of the source are a[i] and a[i+1] here
find_nearest_idx(a, v) ==
    LET i == searchsorted(a, v)
    IN IF i > 0 /\ (i = Len(a) \/ Abs(v - a[i]) < Abs(v - a[i + 1]))
       THEN i - 1
       ELSE i

FindNearestIdx ==
    /\ pc = "start"
    /\ idx' = find_nearest_idx(array, value)
    /\ pc' = "find_nearest_idx_done"
    /\ UNCHANGED <<exc, df, slope_window_size, array, value>>
    /\ UNCHANGED resample_vars
    /\ UNCHANGED script_vars

\* the non-decreasing arrays of n samples whose last sample is at most top
RECURSIVE SortedSeqs(_, _)
SortedSeqs(n, top) ==
    IF n = 0 THEN {<<>>}
    ELSE UNION { {Append(s, x) : s \in SortedSeqs(n - 1, x)} : x \in 0..top }

InitNearest ==
    /\ pc = "start"
    /\ exc = "none"
    /\ df = <<>>
    /\ slope_window_size = 1
    /\ array \in UNION {SortedSeqs(n, MaxVal) : n \in 0..MaxArr}
    /\ value \in (-2)..(MaxVal + 2)
    /\ idx = 0
    /\ profile_len = 0
    /\ step = 1
    /\ thinned_df = <<>>
    /\ data = <<>>
    /\ final_sources = <<>>
    /\ min_corr = [s |-> 1, q |-> 4]
    /\ method = "complete"
    /\ cc = <<>>
    /\ dd = <<>>
    /\ ln = <<>>
    /\ cl = <<>>
    /\ cluster_df = <<>>
    /\ args = <<>>
    /\ DataDirectory = ""
    /\ fs = {}
    /\ trace = <<>>
    /\ filter_df = <<>>

NextNearest == FindNearestIdx

SpecNearest == InitNearest /\ [][NextNearest]_vars

(***************************************************************************)
(* Claims about find_nearest_idx (checked under SpecNearest).              *)
(***************************************************************************)
NearestDone == pc = "find_nearest_idx_done"

\* value lies strictly between the adjacent samples j and j+1 (1-based) and is
\* equally far from both
TieBetween(j) ==
    /\ j + 1 <= Len(array)
    /\ array[j] < value
    /\ value < array[j + 1]
    /\ value - array[j] = array[j + 1] - value

\* C6 (as claimed): when value is equidistant from two adjacent samples, the
\* lower of the two indices is returned.
C6_TieLowerIndex ==
    NearestDone =>
        \A j \in 1..Len(array) : TieBetween(j) => idx = j - 1

\* C6 (amended): when value lies strictly between two adjacent samples and is
\* equidistant from them, the higher of the two indices is returned.
C6_TieHigherIndex ==
    NearestDone =>
        \A j \in 1..Len(array) : TieBetween(j) => idx = j

C6_Witness ==
    /\ NearestDone
    /\ \E j \in 1..Len(array) : TieBetween(j) /\ idx = j

\* C7: for a non-empty non-decreasing array and any value, the returned index is
\* in 0..len(array)-1 and no sample is strictly closer to value than the one
\* at the returned index.
C7_NearestInRange ==
    (NearestDone /\ Len(array) > 0) =>
        /\ idx \in 0..(Len(array) - 1)
        /\ \A j \in 1..Len(array) :
            Abs(value - array[j]) >= Abs(value - array[idx + 1])

\* a value strictly between two samples, nearer to the left one, in an array
\* that also has samples on both sides
C7_Witness ==
    /\ NearestDone
    /\ Len(array) = 3
    /\ array[1] < value
    /\ value < array[2]
    /\ value - array[1] < array[2] - value
    /\ idx = 0

(***************************************************************************)
(* ResampleProfiles.                                                       *)
(***************************************************************************)
\* np.arange(0, profile_len, step): 0, step, 2*step, ... below profile_len
arange(stop, stp) == [k \in 1..((stop + stp - 1) \div stp) |-> (k - 1) * stp]

\* a slip that compares with half the profile length
LongEnough_Half(n, L) == 2 * n >= L

\* len(slopes) >= profile_len/math.sqrt(2) for n, L >= 0: sqrt(2) is
\* irrational, so n >= L/sqrt(2) exactly when 2*n*n >= L*L
LongEnough(n, L) == 2 * n * n >= L * L

\* df['id'].unique(): the ids in order of first appearance
unique(t) ==
    LET pos == SelectSeq([p \in 1..Len(t) |-> p],
                         LAMBDA p : \A q \in 1..(p - 1) : t[q].id # t[p].id)
    IN [k \in 1..Len(pos) |-> t[pos[k]].id]

\* the 1-based positions in t of the rows of this_df: the rows of the source
\* whose slope is not nan (their index labels are the positions minus one)
ValidPositions(t, source) ==
    SelectSeq([p \in 1..Len(t) |-> p],
              LAMBDA p : t[p].id = source /\ ~t[p].slope.nan)

\* this_df after the nan removal
ThisDf(t, source) ==
    LET pos == ValidPositions(t, source)
    IN [k \in 1..Len(pos) |-> t[pos[k]]]

\* the tuple (distances, slopes, drainage_areas) of one source; drainage_areas
\* stays a pandas Series, so it keeps the index labels of its rows
ProfileTuple(t, source) ==
    LET pos == ValidPositions(t, source)
    IN [distances      |-> [k \in 1..Len(pos) |-> t[pos[k]].distance_from_source],
        slopes         |-> [k \in 1..Len(pos) |-> t[pos[k]].slope],
        drainage_areas |-> [k \in 1..Len(pos) |-> t[pos[k]].drainage_areas],
        labels         |-> [k \in 1..Len(pos) |-> pos[k] - 1]]

\* the sources that pass the length test, in the order of source_ids
RECURSIVE Qualifying(_, _, _)
Qualifying(t, ids, L) ==
    IF ids = <<>> THEN <<>>
    ELSE IF LongEnough(Len(ValidPositions(t, Head(ids))), L)
         THEN <<Head(ids)>> \o Qualifying(t, Tail(ids), L)
         ELSE Qualifying(t, Tail(ids), L)

\* thinned_df after the first loop: this_df of every qualifying source, appended
RECURSIVE AppendAll(_, _)
AppendAll(t, ids) ==
    IF ids = <<>> THEN <<>> ELSE ThisDf(t, Head(ids)) \o AppendAll(t, Tail(ids))

\* an entry of np.empty: memory that nothing has written.  No entry is ever
\* read before the function writes or abandons the array.
Uninit == [nan |-> FALSE, num |-> 0, den |-> 0]

\* np.empty((n_profiles, profile_len))
empty(n, m) == [i \in 1..n |-> [k \in 1..m |-> Uninit]]

\* the loop "for d in reg_dist" over a grid: the slopes and areas collected,
\* or the first exception (p[1][idx] out of range, p[2][idx] not a label)
InnerLoop(p, grid) ==
    LET ix  == [k \in 1..Len(grid) |-> find_nearest_idx(p.distances, grid[k])]
        bad == {k \in 1..Len(grid) :
                   \/ ix[k] >= Len(p.slopes)
                   \/ \A j \in 1..Len(p.labels) : p.labels[j] # ix[k]}
        k0  == CHOOSE k \in bad : \A k2 \in bad : k <= k2
    IN IF bad = {}
       THEN [exc |-> "none",
             reg_slope |-> [k \in 1..Len(grid) |-> p.slopes[ix[k] + 1]]]
       ELSE [exc |-> IF ix[k0] >= Len(p.slopes) THEN "IndexError" ELSE "KeyError",
             reg_slope |-> [k \in 1..(k0 - 1) |-> p.slopes[ix[k] + 1]]]

\* data[i] = reg_slope: numpy copies a list of the row's length, repeats a
\* list of one entry, and raises ValueError for any other length
AssignRow(row, reg_slope) ==
    IF Len(reg_slope) = Len(row) THEN [exc |-> "none", row |-> reg_slope]
    ELSE IF Len(reg_slope) = 1
         THEN [exc |-> "none", row |-> [k \in 1..Len(row) |-> reg_slope[1]]]
         ELSE [exc |-> "ValueError", row |-> row]

\* the grid the loop over d runs on: the line before the loop rebinds
\* reg_dist to an empty list, so the grid built by arange is lost
LoopGrid(reg_dist) == <<>>

\* the loop over the profiles.  Its body ends with an assignment to reg_df, a
\* name that is bound nowhere, so the first pass always ends in an exception.
ResampleLoop(profiles, data0, reg_dist) ==
    IF profiles = <<>> THEN [exc |-> "none", data |-> data0]
    ELSE LET inner  == InnerLoop(profiles[1], LoopGrid(reg_dist))
             assign == AssignRow(data0[1], inner.reg_slope)
         IN IF inner.exc # "none" THEN [exc |-> inner.exc, data |-> data0]
            ELSE IF assign.exc # "none" THEN [exc |-> assign.exc, data |-> data0]
            ELSE [exc |-> "NameError",
                  data |-> [data0 EXCEPT ![1] = assign.row]]

\* the whole call: the locals when the function returns or raises
ResampleProfilesRun(t, L, stp) ==
    LET reg_dist   == arange(L, stp)
        source_ids == unique(t)
        kept       == Qualifying(t, source_ids, L)
        profiles   == [i \in 1..Len(kept) |-> ProfileTuple(t, kept[i])]
        loop       == ResampleLoop(profiles, empty(Len(profiles), L), reg_dist)
    IN [exc           |-> loop.exc,
        thinned_df    |-> AppendAll(t, kept),
        data          |-> loop.data,
        final_sources |-> kept]

ResampleProfiles ==
    /\ pc = "start"
    /\ \E r \in {ResampleProfilesRun(df, profile_len, step)} :
          /\ exc' = r.exc
          /\ thinned_df' = r.thinned_df
          /\ data' = r.data
          /\ final_sources' = r.final_sources
    /\ pc' = "ResampleProfiles_done"
    /\ UNCHANGED <<df, slope_window_size, array, value, idx, profile_len, step>>
    /\ UNCHANGED <<min_corr, method, cc, dd, ln, cl, cluster_df>>
    /\ UNCHANGED script_vars

(***************************************************************************)
(* ClusterProfiles.                                                        *)
(*                                                                         *)
(* A correlation is the exact real s/sqrt(q), kept as [nan, s, q] with     *)
(* q > 0; an angle is kept by its cosine, so angles compare the opposite   *)
(* way to their cosines.  Rounding of the floating-point correlation is    *)
(* not modelled.                                                           *)
(***************************************************************************)
CorrNaN == [nan |-> TRUE, s |-> 0, q |-> 1]

\* a.s/sqrt(a.q) <= b.s/sqrt(b.q)
CorrLeq(a, b) ==
    IF a.s < 0 /\ b.s >= 0 THEN TRUE
    ELSE IF a.s >= 0 /\ b.s < 0 THEN FALSE
    ELSE IF a.s >= 0 THEN a.s * a.s * b.q <= b.s * b.s * a.q
    ELSE a.s * a.s * b.q >= b.s * b.s * a.q

RECURSIVE DenProduct(_)
DenProduct(row) ==
    IF row = <<>> THEN 1 ELSE Head(row).den * DenProduct(Tail(row))

\* the Pearson correlation of two rows of data: scale both rows to integers
\* (correlation does not change under a positive scaling), then
\* cov(u, v)/sqrt(var(u) var(v)); a zero variance gives 0/0 = nan
Corr(u, v) ==
    IF \E k \in 1..Len(u) : u[k].nan \/ v[k].nan \/ u[k].den = 0 \/ v[k].den = 0
    THEN CorrNaN
    ELSE LET scale == DenProduct(u) * DenProduct(v)
             m   == Len(u)
             U   == [k \in 1..m |-> u[k].num * (scale \div u[k].den)]
             V   == [k \in 1..m |-> v[k].num * (scale \div v[k].den)]
             Suv == m * SumSeq([k \in 1..m |-> U[k] * V[k]]) - SumSeq(U) * SumSeq(V)
             Suu == m * SumSeq([k \in 1..m |-> U[k] * U[k]]) - SumSeq(U) * SumSeq(U)
             Svv == m * SumSeq([k \in 1..m |-> V[k] * V[k]]) - SumSeq(V) * SumSeq(V)
         IN IF Suu = 0 \/ Svv = 0 THEN CorrNaN
            ELSE [nan |-> FALSE, s |-> Suv, q |-> Suu * Svv]

\* the pairs (i, j), i < j, of 0-based row numbers in condensed order
Pairs(n) ==
    SelectSeq([m \in 1..(n * n) |-> <<(m - 1) \div n, (m - 1) % n>>],
              LAMBDA pr : pr[1] < pr[2])

\* CorrCoef.Pearson(data): the condensed upper triangle of the correlation
\* matrix of the rows of data
Pearson(d) ==
    LET pr == Pairs(Len(d))
    IN [k \in 1..Len(pr) |-> Corr(d[pr[k][1] + 1], d[pr[k][2] + 1])]

\* np.arccos(c): nan for nan and outside [-1, 1], no clipping
arccos(c) ==
    IF c.nan \/ c.s * c.s > c.q
    THEN [nan |-> TRUE, cos |-> [s |-> 0, q |-> 1]]
    ELSE [nan |-> FALSE, cos |-> [s |-> c.s, q |-> c.q]]

\* angle a <= angle b
AngleLeq(a, b) == CorrLeq(b.cos, a.cos)

\* the method names scipy's linkage accepts
LinkageMethods ==
    {"single", "complete", "average", "weighted", "centroid", "median", "ward"}

\* number of observations of a condensed matrix of len entries
NumObs(len) == CHOOSE n \in 1..(len + 1) : n * (n - 1) = 2 * len

\* 1-based position in the condensed matrix of the pair of leaves a # b
CondensedIndex(n, a, b) ==
    LET i == Min(a, b)
        j == Max(a, b)
    IN n * i - ((i * (i + 1)) \div 2) + (j - i - 1) + 1

\* distance between two clusters of leaves: the smallest pairwise distance for
\* "single", the largest for "complete" (the other methods, which average
\* distances, are outside the inputs of this model)
ClusterDist(dists, n, meth, A, B) ==
    LET S == {dists[CondensedIndex(n, a, b)] : a \in A, b \in B}
    IN IF meth = "single"
       THEN CHOOSE x \in S : \A y \in S : AngleLeq(x, y)
       ELSE CHOOSE x \in S : \A y \in S : AngleLeq(y, x)

\* agglomeration: merge the two closest clusters (the pair of lowest ids among
\* equals) until one is left; the k-th merge creates cluster n + k - 1
RECURSIVE Agglomerate(_, _, _, _, _)
Agglomerate(active, dists, n, meth, Z) ==
    IF Cardinality(active) <= 1 THEN Z
    ELSE LET prs  == {pr \in active \X active : pr[1].id < pr[2].id}
             D(pr) == ClusterDist(dists, n, meth, pr[1].members, pr[2].members)
             Before(a, b) ==
                 \/ a[1].id < b[1].id
                 \/ a[1].id = b[1].id /\ a[2].id <= b[2].id
             best == CHOOSE pr \in prs : \A o \in prs :
                        /\ AngleLeq(D(pr), D(o))
                        /\ AngleLeq(D(o), D(pr)) => Before(pr, o)
             new  == [id |-> n + Len(Z),
                      members |-> best[1].members \cup best[2].members]
         IN Agglomerate((active \ {best[1], best[2]}) \cup {new}, dists, n, meth,
                        Append(Z, [left  |-> best[1].id,
                                   right |-> best[2].id,
                                   dist  |-> D(best),
                                   size  |-> Cardinality(new.members)]))

\* scipy.cluster.hierarchy.linkage(dists, method): ValueError for an unknown
\* method, an empty condensed matrix or a distance that is not finite
linkage(dists, meth) ==
    IF meth \notin LinkageMethods THEN [exc |-> "ValueError", Z |-> <<>>]
    ELSE IF Len(dists) = 0 THEN [exc |-> "ValueError", Z |-> <<>>]
    ELSE IF \E k \in 1..Len(dists) : dists[k].nan THEN [exc |-> "ValueError", Z |-> <<>>]
    ELSE LET n == NumObs(Len(dists))
         IN [exc |-> "none",
             Z |-> Agglomerate({[id |-> i, members |-> {i}] : i \in 0..(n - 1)},
                               dists, n, meth, <<>>)]

\* the leaves below a node of the tree (a node below n is a leaf)
RECURSIVE Leaves(_, _, _)
Leaves(Z, n, node) ==
    IF node < n THEN {node}
    ELSE Leaves(Z, n, Z[node - n + 1].left) \cup Leaves(Z, n, Z[node - n + 1].right)

\* the merges in the subtree of a node
RECURSIVE SubMerges(_, _, _)
SubMerges(Z, n, node) ==
    IF node < n THEN {}
    ELSE {node - n + 1} \cup SubMerges(Z, n, Z[node - n + 1].left)
                        \cup SubMerges(Z, n, Z[node - n + 1].right)

\* fcluster's monotone criterion: no merge in the subtree is above t
BelowCut(Z, n, t, node) ==
    \A m \in SubMerges(Z, n, node) : AngleLeq(Z[m].dist, t)

\* fcluster's numbering: walk down from the root, left child first; a subtree
\* below the cut becomes one cluster, a leaf outside any becomes its own
RECURSIVE Monocrit(_, _, _, _, _)
Monocrit(Z, n, t, node, count) ==
    IF BelowCut(Z, n, t, node)
    THEN [T |-> {<<leaf, count + 1>> : leaf \in Leaves(Z, n, node)},
          count |-> count + 1]
    ELSE LET l == Z[node - n + 1].left
             r == Z[node - n + 1].right
             a == IF l >= n THEN Monocrit(Z, n, t, l, count)
                  ELSE [T |-> {}, count |-> count]
             b == IF r >= n THEN Monocrit(Z, n, t, r, a.count)
                  ELSE [T |-> {}, count |-> a.count]
             c == IF l < n THEN [T |-> {<<l, b.count + 1>>}, count |-> b.count + 1]
                  ELSE [T |-> {}, count |-> b.count]
             d == IF r < n THEN [T |-> {<<r, c.count + 1>>}, count |-> c.count + 1]
                  ELSE [T |-> {}, count |-> c.count]
         IN [T |-> a.T \cup b.T \cup c.T \cup d.T, count |-> d.count]

\* fcluster(ln, thr, criterion='distance'): the cluster id of each leaf
fcluster(Z, t) ==
    LET n == Len(Z) + 1
        T == Monocrit(Z, n, t, 2 * n - 2, 0).T
    IN [i \in 1..n |-> (CHOOSE pr \in T : pr[1] = i - 1)[2]]

\* the loop that writes cl[i] to the rows of the i-th id of
\* thinned_df['id'].unique()
Propagate(tdf, labels) ==
    LET source_ids == unique(tdf)
        i(p) == CHOOSE k \in 1..Len(source_ids) : source_ids[k] = tdf[p].id
    IN [p \in 1..Len(tdf) |->
          [id |-> tdf[p].id,
           distance_from_source |-> tdf[p].distance_from_source,
           slope |-> tdf[p].slope,
           drainage_areas |-> tdf[p].drainage_areas,
           cluster_id |-> labels[i(p)]]]

\* what the call leaves when it raises exception e after ResampleProfiles
\* returned r: no linkage, no cluster ids, no table
ClusterRaised(r, e) ==
    [exc |-> e, thinned_df |-> r.thinned_df, data |-> r.data,
     final_sources |-> r.final_sources,
     ln |-> <<>>, cl |-> <<>>, cluster_df |-> <<>>]

\* the call from fcluster on, given the linkage: the threshold arccos(min_corr),
\* the flat clusters, the cluster_id column
ClusterCut(r, link, labels) ==
    [exc |-> "none", thinned_df |-> r.thinned_df, data |-> r.data,
     final_sources |-> r.final_sources,
     ln |-> link.Z, cl |-> labels,
     cluster_df |-> Propagate(r.thinned_df, labels)]

\* the call from linkage on, given its result
ClusterLinked(r, link, mc) ==
    IF link.exc # "none" THEN ClusterRaised(r, link.exc)
    ELSE ClusterCut(r, link,
                    fcluster(link.Z, arccos([nan |-> FALSE, s |-> mc.s, q |-> mc.q])))

\* dd = np.arccos(cc)
Distances(c) == [k \in 1..Len(c) |-> arccos(c[k])]

\* the call after ResampleProfiles, given what it returned or raised: cc and
\* dd exist once ResampleProfiles has returned
ClusterResampled(r, mc, meth) ==
    IF r.exc # "none"
    THEN ClusterRaised(r, r.exc) @@ [cc |-> <<>>, dd |-> <<>>]
    ELSE ClusterLinked(r, linkage(Distances(Pearson(r.data)), meth), mc)
            @@ [cc |-> Pearson(r.data), dd |-> Distances(Pearson(r.data))]

\* the whole call: the locals when the function returns or raises
ClusterProfilesRun(t, L, stp, mc, meth) ==
    ClusterResampled(ResampleProfilesRun(t, L, stp), mc, meth)

ClusterProfiles ==
    /\ pc = "start"
    /\ \E r \in {ClusterProfilesRun(df, profile_len, step, min_corr, method)} :
          /\ exc' = r.exc
          /\ thinned_df' = r.thinned_df
          /\ data' = r.data
          /\ final_sources' = r.final_sources
          /\ cc' = r.cc
          /\ dd' = r.dd
          /\ ln' = r.ln
          /\ cl' = r.cl
          /\ cluster_df' = r.cluster_df
    /\ pc' = "ClusterProfiles_done"
    /\ UNCHANGED <<df, slope_window_size, array, value, idx, profile_len, step>>
    /\ UNCHANGED <<min_corr, method>>
    /\ UNCHANGED script_vars

\* the values of min_corr of the model: 0.5 (the default) and 1.0
MinCorrs == {[s |-> 1, q |-> 4], [s |-> 1, q |-> 1]}

\* the values of method of the model: two that linkage knows, one it does not
Methods == {"complete", "single", "nonesuch"}

(***************************************************************************)
(* Input tables of ResampleProfiles: up to two sources of up to MaxLen     *)
(* nodes one metre apart; each node's slope is missing or a value of its   *)
(* own.  The second source comes first in id order.                        *)
(***************************************************************************)
RECURSIVE NanPatterns(_)
NanPatterns(k) ==
    IF k = 0 THEN {<<>>}
    ELSE {Append(s, b) : s \in NanPatterns(k - 1), b \in BOOLEAN}

SourceRows(id, pat) ==
    [k \in 1..Len(pat) |->
        [id |-> id,
         distance_from_source |-> k - 1,
         slope |-> IF pat[k] THEN NaN ELSE Rat(k + id, id),
         drainage_areas |-> 10 * k]]

SourcePatterns == UNION {NanPatterns(k) : k \in 1..MaxLen}

ResampleTables ==
    {<<>>} \cup {SourceRows(2, a) : a \in SourcePatterns}
           \cup {SourceRows(2, a) \o SourceRows(1, b) :
                    a \in SourcePatterns, b \in SourcePatterns}

Init ==
    /\ pc = "start"
    /\ exc = "none"
    /\ df \in ResampleTables
    /\ slope_window_size = 1
    /\ array = <<>>
    /\ value = 0
    /\ idx = 0
    /\ profile_len \in 1..MaxProfileLen
    /\ step \in 1..MaxStep
    /\ thinned_df = <<>>
    /\ data = <<>>
    /\ final_sources = <<>>
    /\ min_corr \in MinCorrs
    /\ method \in Methods
    /\ cc = <<>>
    /\ dd = <<>>
    /\ ln = <<>>
    /\ cl = <<>>
    /\ cluster_df = <<>>
    /\ args = <<>>
    /\ DataDirectory = ""
    /\ fs = {}
    /\ trace = <<>>
    /\ filter_df = <<>>

Next ==
    \/ ResampleProfiles
    \/ ClusterProfiles

Spec == Init /\ [][Next]_vars

(***************************************************************************)
(* Claims about ResampleProfiles (checked under Spec).                     *)
(***************************************************************************)
ResampleDone == pc = "ResampleProfiles_done"

\* the ids that occur in a table
IdsOf(t) == {t[p].id : p \in 1..Len(t)}

\* the members of a sequence
Range(s) == {s[k] : k \in 1..Len(s)}

\* number of rows of a source whose slope is not missing
ValidCount(t, source) ==
    Cardinality({p \in 1..Len(t) : t[p].id = source /\ ~t[p].slope.nan})

\* C3 (as claimed): for every retained profile and every grid point
\* g_k = k*step, position k of the profile's resampled vector holds the slope
\* of the sample whose distance_from_source is nearest to g_k.
C3_NearestSlopeCopied ==
    (ResampleDone /\ final_sources # <<>>) =>
        /\ exc = "none"
        /\ \A i \in 1..Len(final_sources) :
            \A k \in 0..((profile_len \div step) - 1) :
                \E p \in 1..Len(df) :
                    /\ df[p].id = final_sources[i]
                    /\ ~df[p].slope.nan
                    /\ data[i][k + 1] = df[p].slope
                    /\ \A q \in 1..Len(df) :
                        (df[q].id = final_sources[i] /\ ~df[q].slope.nan) =>
                            Abs(df[p].distance_from_source - k * step)
                                <= Abs(df[q].distance_from_source - k * step)

C5_RowLengthIsGridLength ==
    ResampleDone =>
        \A i \in 1..Len(data) : Len(data[i]) = Len(arange(profile_len, step))

(***************************************************************************)
(* Claims about ClusterProfiles (checked under Spec).                      *)
(***************************************************************************)
ClusterDone == pc = "ClusterProfiles_done"

\* the merges on the tree path that joins leaves a and b (0-based): the
\* merges that hold a or b and lie inside the smallest merge holding both
PathMerges(Z, a, b) ==
    LET n    == Len(Z) + 1
        L(m) == Leaves(Z, n, n + m - 1)
        both == {m \in 1..Len(Z) : a \in L(m) /\ b \in L(m)}
        lca  == CHOOSE m \in both : \A o \in both : L(m) \subseteq L(o)
    IN IF a = b THEN {}
       ELSE {m \in 1..Len(Z) : (a \in L(m) \/ b \in L(m)) /\ L(m) \subseteq L(lca)}

\* the threshold of the cut, the angle arccos(min_corr)
Threshold == arccos([nan |-> FALSE, s |-> min_corr.s, q |-> min_corr.q])

\* C8 (as claimed): ClusterProfiles cuts the tree at arccos(min_corr): every
\* retained profile receives an integer cluster id >= 1, and two profiles
\* receive the same id exactly when no merge on the tree path joining them is
\* above the threshold.
C8_CutAtThreshold ==
    (ClusterDone /\ final_sources # <<>>) =>
        /\ exc = "none"
        /\ Len(cl) = Len(final_sources)
        /\ \A i \in 1..Len(cl) : cl[i] >= 1
        /\ \A i, j \in 1..Len(cl) :
            (cl[i] = cl[j]) <=>
                \A m \in PathMerges(ln, i - 1, j - 1) : AngleLeq(ln[m].dist, Threshold)

\* C9 (as claimed): for n >= 2 resampled profiles, a cut at threshold 0
\* (min_corr = 1) yields n singleton clusters, and a cut at or above the
\* largest merge distance yields one cluster.
C9_ExtremeCuts ==
    (ClusterDone /\ Len(final_sources) >= 2) =>
        /\ exc = "none"
        /\ Len(cl) = Len(final_sources)
        /\ (min_corr.s = 1 /\ min_corr.q = 1) =>
               Cardinality(Range(cl)) = Len(final_sources)
        /\ (\A m \in 1..Len(ln) : AngleLeq(ln[m].dist, Threshold)) =>
               Cardinality(Range(cl)) = 1

\* C10 (as claimed): the i-th cluster label is written to every row of the
\* i-th retained source and to no other row; every retained source appears in
\* the output with a cluster id, and no source that failed the filter does.
C10_LabelsPropagated ==
    (ClusterDone /\ final_sources # <<>>) =>
        /\ exc = "none"
        /\ \A i \in 1..Len(final_sources) :
            /\ i \in DOMAIN cl
            /\ \E p \in 1..Len(cluster_df) : cluster_df[p].id = final_sources[i]
            /\ \A p \in 1..Len(cluster_df) :
                cluster_df[p].id = final_sources[i] => cluster_df[p].cluster_id = cl[i]
        /\ IdsOf(cluster_df) \subseteq Range(final_sources)

\* C11 (as claimed): the table ClusterProfiles returns holds every node of
\* every retained source of the full-resolution table, the nodes whose slope
\* is missing included, each with the cluster id of its source.
C11_AllNodesLabelled ==
    (ClusterDone /\ final_sources # <<>>) =>
        \A p \in 1..Len(df) :
            df[p].id \in Range(final_sources) =>
                \E q \in 1..Len(cluster_df) :
                    /\ cluster_df[q].id = df[p].id
                    /\ cluster_df[q].distance_from_source = df[p].distance_from_source
                    /\ cluster_df[q].slope = df[p].slope
                    /\ cluster_df[q].cluster_id >= 1

(***************************************************************************)
(* The correlation, distance, linkage and cut of ClusterProfiles (lines    *)
(* 158-192) as a function of the array, table and source list it works on: *)
(* up to MaxRows resampled vectors of three slopes each, among them a      *)
(* constant one, two proportional ones and a reversed one.                 *)
(***************************************************************************)
MaxRows == 3     \* arrays of up to MaxRows resampled vectors

Vectors ==
    {<<Rat(1, 1), Rat(1, 1), Rat(1, 1)>>,
     <<Rat(1, 1), Rat(2, 1), Rat(3, 1)>>,
     <<Rat(2, 1), Rat(4, 1), Rat(6, 1)>>,
     <<Rat(3, 1), Rat(2, 1), Rat(1, 1)>>,
     <<Rat(1, 1), Rat(3, 1), Rat(2, 1)>>}

ResampledArrays == UNION {[1..n -> Vectors] : n \in 0..MaxRows}

\* the table whose sources 1..n have the vectors of d as their slopes
ThinnedOf(d) ==
    [p \in 1..(3 * Len(d)) |->
        [id |-> ((p - 1) \div 3) + 1,
         distance_from_source |-> (p - 1) % 3,
         slope |-> d[((p - 1) \div 3) + 1][((p - 1) % 3) + 1],
         drainage_areas |-> 10 * (((p - 1) % 3) + 1)]]

\* lines 158-192 on the array, table and source list at hand
LinkProfiles ==
    /\ pc = "start"
    /\ \E r \in {ClusterResampled([exc |-> "none", thinned_df |-> thinned_df,
                                   data |-> data,
                                   final_sources |-> final_sources],
                                  min_corr, method)} :
          /\ exc' = r.exc
          /\ cc' = r.cc
          /\ dd' = r.dd
          /\ ln' = r.ln
          /\ cl' = r.cl
          /\ cluster_df' = r.cluster_df
    /\ pc' = "linkage_done"
    /\ UNCHANGED <<df, slope_window_size, array, value, idx, profile_len, step>>
    /\ UNCHANGED <<thinned_df, data, final_sources, min_corr, method>>
    /\ UNCHANGED script_vars

InitLinkage ==
    /\ pc = "start"
    /\ exc = "none"
    /\ data \in ResampledArrays
    /\ thinned_df = ThinnedOf(data)
    /\ df = thinned_df
    /\ final_sources = [i \in 1..Len(data) |-> i]
    /\ slope_window_size = 1
    /\ array = <<>>
    /\ value = 0
    /\ idx = 0
    /\ profile_len = 3
    /\ step = 1
    /\ min_corr \in MinCorrs
    /\ method \in Methods
    /\ cc = <<>>
    /\ dd = <<>>
    /\ ln = <<>>
    /\ cl = <<>>
    /\ cluster_df = <<>>
    /\ args = <<>>
    /\ DataDirectory = ""
    /\ fs = {}
    /\ trace = <<>>
    /\ filter_df = <<>>

NextLinkage == LinkProfiles

SpecLinkage == InitLinkage /\ [][NextLinkage]_vars

(***************************************************************************)
(* Claims about the distances and the linkage (checked under SpecLinkage). *)
(***************************************************************************)
LinkDone == pc = "linkage_done"

\* a resampled vector whose entries are all equal
ZeroVariance(row) == \A k \in 1..Len(row) : row[k] = row[1]

C16_SlopeNonNegative ==
    SlopeDone =>
        \A p \in 1..Len(df) :
            \/ df[p].slope.nan
            \/ df[p].slope.num >= 0 /\ df[p].slope.den > 0

\* a window of three over a node of a falling stretch and over a node of a
\* rising stretch: both slopes are stored, both positive
C16_Witness ==
    /\ SlopeDone
    /\ slope_window_size = 3
    /\ \E p \in 2..(Len(df) - 1) :
        /\ df[p - 1].id = df[p + 1].id
        /\ df[p - 1].elevation > df[p].elevation
        /\ df[p].elevation > df[p + 1].elevation
        /\ ~df[p].slope.nan /\ df[p].slope.num > 0
    /\ \E p \in 2..(Len(df) - 1) :
        /\ df[p - 1].id = df[p + 1].id
        /\ df[p - 1].elevation < df[p].elevation
        /\ df[p].elevation < df[p + 1].elevation
        /\ ~df[p].slope.nan /\ df[p].slope.num > 0

(***************************************************************************)
(* Further claims about ResampleProfiles (checked under Spec).             *)
(***************************************************************************)
\* C17 (as claimed): ResampleProfiles returns an array that is a function of
\* its arguments alone: the call returns, and no entry of the array it
\* returns is still the uninitialised memory that np.empty handed out (the
\* one thing in the function that can differ between two executions).
C17_ReturnsInitialised ==
    (ResampleDone /\ final_sources # <<>>) =>
        /\ exc = "none"
        /\ \A i \in 1..Len(data) :
            \A k \in 1..Len(data[i]) : data[i][k] # Uninit

\* C15 (as claimed): no stage mutates its input table in place; for
\* CalculateSlope: the table it was given has, after the call, the columns
\* and values it had before.
C15_InputUnchanged ==
    [][(pc = "start" /\ pc' = "CalculateSlope_done") => df' = df]_vars

(***************************************************************************)
(* plot-river-clusters.py as a script: __main__ and PlotProfilesByCluster. *)
(* pc is the line about to run; "exit" after sys.exit(), "raised" after an *)
(* uncaught exception (its type in exc).  trace lists the stages that have *)
(* run.  A file is a path of fs; its content is the table it holds.        *)
(***************************************************************************)
\* a slip that forgets the test of fname_prefix
MustExit_ArgcOnly(a) == a.argc <= 1

\* the two early exits of both scripts: no argument at all (welcome screen),
\* or no -fname (warning); each is followed by sys.exit()
MustExit(a) == a.argc <= 1 \/ a.fname_prefix = ""

\* str.endswith("/")
EndsWithSlash(s) == Len(s) > 0 /\ SubSeq(s, Len(s), Len(s)) = "/"

\* the path DataDirectory+fname_prefix+'_all_sources{}.csv'.format(profile_len)
AllSourcesCsv(dir, prefix, len) ==
    dir \o prefix \o "_all_sources" \o ToString(len) \o ".csv"

\* the arguments given to the script: argc is len(sys.argv); an option that
\* was not given is "" (argparse's None)
PlotArgs ==
    {a \in [argc : {1, 2},
            fname_prefix : {"", "dem"},
            base_directory : {"", "data", "data/"},
            profile_len : 1..MaxProfileLen,
            slope_window : {1, 3},
            method : Methods,
            min_corr : MinCorrs,
            step : 1..MaxStep] :
        a.argc = 1 => (a.fname_prefix = "" /\ a.base_directory = "")}

\* a profile table as the csv holds it: one source of n nodes one metre
\* apart, falling one metre per node or flat
PlotTable(n, falling) ==
    [k \in 1..n |->
        [id |-> 1,
         distance_from_source |-> k - 1,
         elevation |-> IF falling THEN n - k ELSE 0,
         drainage_areas |-> 10 * k]]

PlotTables == {PlotTable(n, f) : n \in 1..(MaxLen + 1), f \in BOOLEAN}

\* lines 371-410: welcome screen, argument parsing, fname_prefix and
\* DataDirectory, then the call of PlotProfilesByCluster with the arguments;
\* os is not imported by this script, so os.getcwd() is a NameError
PlotMain ==
    /\ pc = "plot_main"
    /\ IF MustExit(args)
       THEN /\ pc' = "exit"
            /\ UNCHANGED <<exc, DataDirectory, slope_window_size, profile_len,
                           min_corr, method>>
       ELSE IF args.base_directory = ""
       THEN /\ pc' = "raised"
            /\ exc' = "NameError"
            /\ UNCHANGED <<DataDirectory, slope_window_size, profile_len,
                           min_corr, method>>
       ELSE /\ DataDirectory' = IF EndsWithSlash(args.base_directory)
                                THEN args.base_directory
                                ELSE args.base_directory \o "/"
            /\ slope_window_size' = args.slope_window
            /\ profile_len' = args.profile_len
            /\ min_corr' = args.min_corr
            /\ method' = args.method
            /\ pc' = "PlotProfilesByCluster_295"
            /\ UNCHANGED exc
    /\ UNCHANGED <<df, array, value, idx, step, thinned_df, data, final_sources>>
    /\ UNCHANGED <<cc, dd, ln, cl, cluster_df, args, fs, trace, filter_df>>

\* line 295: df = pd.read_csv(...); IOError when the file does not exist
PlotReadCsv ==
    /\ pc = "PlotProfilesByCluster_295"
    /\ LET path == AllSourcesCsv(DataDirectory, args.fname_prefix, profile_len)
       IN IF path \in DOMAIN fs
          THEN /\ df' = fs[path]
               /\ trace' = Append(trace, "read_csv")
               /\ pc' = "PlotProfilesByCluster_299"
               /\ UNCHANGED exc
          ELSE /\ exc' = "IOError"
               /\ pc' = "raised"
               /\ UNCHANGED <<df, trace>>
    /\ UNCHANGED <<slope_window_size, array, value, idx>>
    /\ UNCHANGED resample_vars
    /\ UNCHANGED <<args, DataDirectory, fs, filter_df>>

\* line 299: df = CalculateSlope(df, slope_window_size)
PlotCalculateSlope ==
    /\ pc = "PlotProfilesByCluster_299"
    /\ df' = CalculateSlopeTable(df, slope_window_size)
    /\ trace' = Append(trace, "CalculateSlope")
    /\ pc' = "PlotProfilesByCluster_302"
    /\ UNCHANGED <<exc, slope_window_size, array, value, idx>>
    /\ UNCHANGED resample_vars
    /\ UNCHANGED <<args, DataDirectory, fs, filter_df>>

\* the step that PlotProfilesByCluster hands to ClusterProfiles: the call at
\* line 302 says step=1, whatever step the function was given
StepPassed(stp) == 1

\* the stages of ClusterProfiles that ran, given how it ended: linkage, which
\* looks at the method name, runs only if ResampleProfiles returned
ClusterStages(resampled) ==
    IF resampled.exc # "none" THEN <<"ResampleProfiles">>
    ELSE <<"ResampleProfiles", "Pearson", "arccos", "linkage">>

\* line 302: cluster_df = ClusterProfiles(df, profile_len = profile_len,
\* step=1, min_corr = min_corr, method = method); nothing in the script
\* catches an exception it raises
PlotClusterProfiles ==
    /\ pc = "PlotProfilesByCluster_302"
    /\ step' = StepPassed(args.step)
    /\ \E r \in {ClusterProfilesRun(df, profile_len, StepPassed(args.step),
                                    min_corr, method)} :
          /\ pc' = IF r.exc # "none" THEN "raised"
                    ELSE "PlotProfilesByCluster_305"
          /\ exc' = r.exc
          /\ thinned_df' = r.thinned_df
          /\ data' = r.data
          /\ final_sources' = r.final_sources
          /\ cc' = r.cc
          /\ dd' = r.dd
          /\ ln' = r.ln
          /\ cl' = r.cl
          /\ cluster_df' = r.cluster_df
    /\ trace' = trace \o ClusterStages(
                    ResampleProfilesRun(df, profile_len, StepPassed(args.step)))
    /\ UNCHANGED <<df, slope_window_size, array, value, idx, profile_len>>
    /\ UNCHANGED <<min_corr, method, args, DataDirectory, fs, filter_df>>

InitPlot ==
    /\ pc = "plot_main"
    /\ exc = "none"
    /\ args \in PlotArgs
    /\ \E t \in PlotTables :
          fs \in {<<>>,
                  AllSourcesCsv("data/", "dem", args.profile_len) :> t}
    /\ DataDirectory = ""
    /\ trace = <<>>
    /\ filter_df = <<>>
    /\ df = <<>>
    /\ slope_window_size = 0
    /\ array = <<>>
    /\ value = 0
    /\ idx = 0
    /\ profile_len = 0
    /\ step = 0
    /\ thinned_df = <<>>
    /\ data = <<>>
    /\ final_sources = <<>>
    /\ min_corr = [s |-> 0, q |-> 1]
    /\ method = ""
    /\ cc = <<>>
    /\ dd = <<>>
    /\ ln = <<>>
    /\ cl = <<>>
    /\ cluster_df = <<>>

NextPlot ==
    \/ PlotMain
    \/ PlotReadCsv
    \/ PlotCalculateSlope
    \/ PlotClusterProfiles

SpecPlot == InitPlot /\ [][NextPlot]_vars

(***************************************************************************)
(* Claims about the run of plot-river-clusters.py (checked under SpecPlot).*)
(***************************************************************************)
\* the stage has run
Ran(stage) == \E k \in 1..Len(trace) : trace[k] = stage

\* C14 (as claimed): an unrecognized linkage method name is reported before
\* any computation: in a run whose method linkage does not know, no slope
\* calculation, no resampling and no correlation ever happens.
C14_MethodValidatedFirst ==
    args.method \notin LinkageMethods =>
        /\ ~Ran("CalculateSlope")
        /\ ~Ran("ResampleProfiles")
        /\ ~Ran("Pearson")

\* C20 (as claimed): the step given to the script (-step) is the spacing with
\* which the profiles are resampled for the clustering, for every step.
C20_StepIsUsed ==
    Ran("ResampleProfiles") => step = args.step

(***************************************************************************)
(* cluster-river-profiles.py as a script.  pc is the line about to run.    *)
(* The functions of the modules clustering, plotting and raster_plotting   *)
(* that it calls are steps that return or raise; what they do to the table *)
(* is not looked at.  A table is known by where it came from.              *)
(***************************************************************************)
MaxStreamOrder == 2   \* stream_order ranges over 1..MaxStreamOrder

\* os.getcwd(): an absolute path, which never ends with a slash
Cwd == "/home/user"

MainArgs ==
    {a \in [argc : {1, 2},
            fname_prefix : {"", "dem"},
            base_directory : {"", "data", "data/"},
            profile_len : 1..MaxProfileLen,
            slope_window : {1, 3},
            method : Methods,
            min_corr : {[s |-> 1, q |-> 4]},
            step : 1..MaxStep,
            stream_order : 1..MaxStreamOrder,
            shp : {"", "geology.shp"}] :
        a.argc = 1 => (a.fname_prefix = "" /\ a.base_directory = "" /\ a.shp = "")}

\* the directory the user's files are in, written the way a path needs it
UserDirectory(a) == IF a.base_directory = "" THEN Cwd \o "/" ELSE "data/"

\* the same directory without the slash between it and the file name: where
\* a file named <directory name><prefix><suffix> would be
UserDirectoryJoined(a) == IF a.base_directory = "" THEN Cwd ELSE "data/"

\* lines 36-78: welcome screen, argument parsing, fname_prefix, DataDirectory
Main ==
    /\ pc = "main"
    /\ IF MustExit(args)
       THEN /\ pc' = "exit"
            /\ UNCHANGED DataDirectory
       ELSE /\ DataDirectory' =
                  IF args.base_directory = "" THEN Cwd
                  ELSE IF EndsWithSlash(args.base_directory)
                  THEN args.base_directory
                  ELSE args.base_directory \o "/"
            /\ pc' = "main_81"
    /\ UNCHANGED <<exc, df, slope_window_size, array, value, idx>>
    /\ UNCHANGED resample_vars
    /\ UNCHANGED <<args, fs, trace, filter_df>>

\* lines 81-84: the arguments are written to <prefix>_report.csv
WriteReport ==
    /\ pc = "main_81"
    /\ fs' = (DataDirectory \o args.fname_prefix \o "_report.csv" :> <<"args">>) @@ fs
    /\ trace' = Append(trace, "write_report")
    /\ pc' = "main_87"
    /\ UNCHANGED <<exc, df, slope_window_size, array, value, idx>>
    /\ UNCHANGED resample_vars
    /\ UNCHANGED <<args, DataDirectory, filter_df>>

\* a slip that never finds the slopes file and computes the slopes anew
SlopesFileExists_Never(files, slope_file) == FALSE

\* line 88: os.path.isfile(slope_file)
SlopesFileExists(files, slope_file) == slope_file \in DOMAIN files

\* lines 87-89: the slopes file exists and is read
LoadSlopes ==
    /\ pc = "main_87"
    /\ SlopesFileExists(fs, DataDirectory \o args.fname_prefix \o "_slopes.csv")
    /\ trace' = Append(trace, "read_slopes")
    /\ pc' = "main_100"
    /\ UNCHANGED <<exc, df, slope_window_size, array, value, idx>>
    /\ UNCHANGED resample_vars
    /\ UNCHANGED <<args, DataDirectory, fs, filter_df>>

\* lines 90-97: no slopes file: read <prefix>_all_tribs.csv (IOError when it
\* does not exist), cl.CalculateSlope, which returns or raises, and to_csv
ComputeSlopes ==
    /\ pc = "main_87"
    /\ ~SlopesFileExists(fs, DataDirectory \o args.fname_prefix \o "_slopes.csv")
    /\ IF DataDirectory \o args.fname_prefix \o "_all_tribs.csv" \notin DOMAIN fs
       THEN /\ exc' = "IOError"
            /\ pc' = "raised"
            /\ UNCHANGED <<fs, trace>>
       ELSE \E returns \in BOOLEAN :
              IF returns
              THEN /\ fs' = (DataDirectory \o args.fname_prefix \o "_slopes.csv"
                                :> <<"all_tribs", "CalculateSlope">>) @@ fs
                   /\ trace' = trace \o <<"read_all_tribs", "CalculateSlope",
                                          "write_slopes">>
                   /\ pc' = "main_100"
                   /\ UNCHANGED exc
              ELSE /\ trace' = trace \o <<"read_all_tribs", "CalculateSlope">>
                   /\ exc' = "Exception"
                   /\ pc' = "raised"
                   /\ UNCHANGED fs
    /\ UNCHANGED <<df, slope_window_size, array, value, idx>>
    /\ UNCHANGED resample_vars
    /\ UNCHANGED <<args, DataDirectory, filter_df>>

\* a call of a function of another module: it runs, then returns (the run
\* goes on at next) or raises
Call(name, next) ==
    /\ trace' = Append(trace, name)
    /\ \E returns \in BOOLEAN :
          IF returns THEN pc' = next /\ UNCHANGED exc
          ELSE pc' = "raised" /\ exc' = "Exception"
    /\ UNCHANGED <<df, slope_window_size, array, value, idx>>
    /\ UNCHANGED resample_vars
    /\ UNCHANGED <<args, DataDirectory, fs, filter_df>>

\* a slip that runs the uniqueness filter for every stream order
RunsUniquenessFilter_Always(stream_order) == TRUE

\* line 101: if args.stream_order > 1
RunsUniquenessFilter(stream_order) == stream_order > 1

\* line 100: cl.GetProfilesByStreamOrder, then the test of line 101
GetProfilesByStreamOrder ==
    /\ pc = "main_100"
    /\ Call("GetProfilesByStreamOrder",
            IF RunsUniquenessFilter(args.stream_order) THEN "main_102"
            ELSE "main_104")

\* line 102: cl.RemoveNonUniqueProfiles
RemoveNonUniqueProfiles ==
    /\ pc = "main_102"
    /\ Call("RemoveNonUniqueProfiles", "main_104")

\* line 104: cl.RemoveProfilesShorterThanThresholdLength
RemoveProfilesShorterThanThresholdLength ==
    /\ pc = "main_104"
    /\ Call("RemoveProfilesShorterThanThresholdLength", "main_107")

\* line 107: cl.ClusterProfilesVaryingLength
ClusterProfilesVaryingLength ==
    /\ pc = "main_107"
    /\ Call("ClusterProfilesVaryingLength", "main_108")

\* lines 108-111: pl.PlotProfilesByCluster, rpl.PlotElevationWithClusters
PlotProfilesByCluster ==
    /\ pc = "main_108"
    /\ Call("PlotProfilesByCluster", "main_111")

PlotElevationWithClusters ==
    /\ pc = "main_111"
    /\ Call("PlotElevationWithClusters", IF args.shp # "" THEN "main_113" ELSE "main_114")

\* lines 112-113: rpl.PlotLithologyWithClusters, when a shapefile was given
PlotLithologyWithClusters ==
    /\ pc = "main_113"
    /\ Call("PlotLithologyWithClusters", "main_114")

\* lines 114-119: pl.PlotSlopeArea, pl.PlotTrunkChannel, the last message
PlotSlopeArea ==
    /\ pc = "main_114"
    /\ Call("PlotSlopeArea", "main_115")

PlotTrunkChannel ==
    /\ pc = "main_115"
    /\ Call("PlotTrunkChannel", "done")

InitMain ==
    /\ pc = "main"
    /\ exc = "none"
    /\ args \in MainArgs
    /\ \E present \in SUBSET {"_slopes.csv", "_all_tribs.csv"} :
          \E dir \in {UserDirectory(args), UserDirectoryJoined(args)} :
             fs = [p \in {dir \o "dem" \o x : x \in present} |-> <<"csv">>]
    /\ DataDirectory = ""
    /\ trace = <<>>
    /\ filter_df = <<>>
    /\ df = <<>>
    /\ slope_window_size = 0
    /\ array = <<>>
    /\ value = 0
    /\ idx = 0
    /\ profile_len = 0
    /\ step = 0
    /\ thinned_df = <<>>
    /\ data = <<>>
    /\ final_sources = <<>>
    /\ min_corr = [s |-> 0, q |-> 1]
    /\ method = ""
    /\ cc = <<>>
    /\ dd = <<>>
    /\ ln = <<>>
    /\ cl = <<>>
    /\ cluster_df = <<>>

NextMain ==
    \/ Main
    \/ WriteReport
    \/ LoadSlopes
    \/ ComputeSlopes
    \/ GetProfilesByStreamOrder
    \/ RemoveNonUniqueProfiles
    \/ RemoveProfilesShorterThanThresholdLength
    \/ ClusterProfilesVaryingLength
    \/ PlotProfilesByCluster
    \/ PlotElevationWithClusters
    \/ PlotLithologyWithClusters
    \/ PlotSlopeArea
    \/ PlotTrunkChannel

SpecMain == InitMain /\ [][NextMain]_vars

(***************************************************************************)
(* Claims about the run of cluster-river-profiles.py (checked under        *)
(* SpecMain).                                                              *)
(***************************************************************************)
\* the place of a stage in the claimed order: report 0, slope 1, selection by
\* stream order 2, uniqueness filter 3, length filter 4, clustering 5,
\* plotting 6
StageRank(stage) ==
    CASE stage = "write_report" -> 0
      [] stage \in {"read_slopes", "read_all_tribs", "CalculateSlope",
                    "write_slopes"} -> 1
      [] stage = "GetProfilesByStreamOrder" -> 2
      [] stage = "RemoveNonUniqueProfiles" -> 3
      [] stage = "RemoveProfilesShorterThanThresholdLength" -> 4
      [] stage = "ClusterProfilesVaryingLength" -> 5
      [] OTHER -> 6

\* C18: the stages run in the order slope (computed or loaded), selection by
\* stream order, uniqueness filter, length filter, clustering, plotting: none
\* runs before an earlier one, none runs unless the one before it has run,
\* and the uniqueness filter runs if and only if stream_order > 1.
C18_StageOrder ==
    /\ \A i, j \in 1..Len(trace) :
          i < j => StageRank(trace[i]) <= StageRank(trace[j])
    /\ Ran("GetProfilesByStreamOrder") =>
          (Ran("read_slopes") \/ Ran("write_slopes"))
    /\ Ran("RemoveNonUniqueProfiles") =>
          (Ran("GetProfilesByStreamOrder") /\ args.stream_order > 1)
    /\ Ran("RemoveProfilesShorterThanThresholdLength") =>
          /\ Ran("GetProfilesByStreamOrder")
          /\ Ran("RemoveNonUniqueProfiles") <=> args.stream_order > 1
    /\ Ran("ClusterProfilesVaryingLength") =>
          Ran("RemoveProfilesShorterThanThresholdLength")
    /\ (\E k \in 1..Len(trace) : StageRank(trace[k]) = 6) =>
          Ran("ClusterProfilesVaryingLength")

\* a complete run for stream order 2, slopes computed, every stage run
C18_Witness ==
    /\ pc = "done"
    /\ args.stream_order > 1
    /\ Ran("CalculateSlope")
    /\ Ran("RemoveNonUniqueProfiles")
    /\ Ran("PlotTrunkChannel")

(***************************************************************************)
(* Both scripts: a run is a run of cluster-river-profiles.py or a run of   *)
(* plot-river-clusters.py.                                                 *)
(***************************************************************************)
InitScripts == InitMain \/ InitPlot

NextScripts == NextMain \/ NextPlot

SpecScripts == InitScripts /\ [][NextScripts]_vars

\* C21: in both scripts, when no argument is given or -fname is missing, the
\* one step the run takes is the exit: no table is read, no stage runs and
\* no file is created or written, the _report.csv file included.
C21_ExitBeforeFiles ==
    [][(args.argc <= 1 \/ args.fname_prefix = "") =>
          /\ pc' = "exit"
          /\ fs' = fs
          /\ trace' = trace
          /\ df' = df]_vars

\* a run given -dir but no -fname has exited, with nothing read or written
C21_Witness ==
    /\ pc = "exit"
    /\ args.argc > 1
    /\ args.fname_prefix = ""
    /\ args.base_directory # ""
    /\ trace = <<>>
    /\ \A p \in DOMAIN fs : fs[p] # <<"args">>

(***************************************************************************)
(* Further claims about the run of cluster-river-profiles.py (checked      *)
(* under SpecMain).                                                        *)
(***************************************************************************)
\* slope_file of line 87, once DataDirectory is set
SlopeFile == DataDirectory \o args.fname_prefix \o "_slopes.csv"

\* how often a stage has run
TimesRan(stage) == Cardinality({k \in 1..Len(trace) : trace[k] = stage})

\* C22: when the slopes file exists, every later step leaves it as it is and
\* calls CalculateSlope no further time, whatever slope_window is; and profile
\* selection starts only after the slopes were either loaded from the file
\* that was there, with no call of CalculateSlope and no write, or computed
\* by exactly one call of CalculateSlope on the _all_tribs table and written
\* to the slopes file.
C22_SlopesLoadedOrComputedOnce ==
    /\ [][(pc \notin {"main", "exit"} /\ SlopeFile \in DOMAIN fs) =>
            /\ SlopeFile \in DOMAIN fs'
            /\ fs'[SlopeFile] = fs[SlopeFile]
            /\ \A k \in (Len(trace) + 1)..Len(trace') :
                  trace'[k] \notin {"CalculateSlope", "write_slopes"}]_vars
    /\ [](Ran("GetProfilesByStreamOrder") =>
            /\ SlopeFile \in DOMAIN fs
            /\ \/ /\ fs[SlopeFile] = <<"csv">>
                  /\ TimesRan("read_slopes") = 1
                  /\ TimesRan("CalculateSlope") = 0
                  /\ TimesRan("write_slopes") = 0
               \/ /\ fs[SlopeFile] = <<"all_tribs", "CalculateSlope">>
                  /\ TimesRan("read_slopes") = 0
                  /\ TimesRan("read_all_tribs") = 1
                  /\ TimesRan("CalculateSlope") = 1
                  /\ TimesRan("write_slopes") = 1)

\* a run given a slope window of 3 whose slopes file was there: selection has
\* started, the slopes were loaded, the file is as it was
C22_Witness ==
    /\ Ran("GetProfilesByStreamOrder")
    /\ args.slope_window = 3
    /\ Ran("read_slopes")
    /\ ~Ran("CalculateSlope")
    /\ fs[SlopeFile] = <<"csv">>

(***************************************************************************)
(* plotting.py, PlotSlopeAreaAllProfiles, from the two read_csv to the     *)
(* selection of each cluster's slope-area rows (lines 192-227); the        *)
(* binning, fitting and drawing that follow change no table.  The slopes   *)
(* table holds up to MaxSources sources; each is a headwater node followed *)
(* or not by the trunk node 4 that sources share.  The clustered table     *)
(* holds the sources that were clustered, at least one.                    *)
(***************************************************************************)
MaxSources == 3   \* slopes tables of up to MaxSources sources

\* the default of the argument area_t
area_t == 1000

\* the node lists a source can have
NodeLists == {<<1, 4>>, <<2, 4>>, <<3, 4>>, <<3>>}

\* the rows of source s in _slopes.csv
SlopeAreaRows(s, nodes) ==
    [k \in 1..Len(nodes) |->
        [id |-> s,
         node |-> nodes[k],
         slope |-> Rat(1, nodes[k]),
         drainage_area |-> 600 * nodes[k]]]

\* the slopes tables of n sources
RECURSIVE SlopeAreaTables(_)
SlopeAreaTables(n) ==
    IF n = 0 THEN {<<>>}
    ELSE {t \o SlopeAreaRows(n, nodes) :
             t \in SlopeAreaTables(n - 1), nodes \in NodeLists}

\* the clustered table: the rows of the sources that have a cluster (label
\* 1 or 2; label 0 is a source that was not clustered), with the cluster
RECURSIVE ClusteredTable(_, _)
ClusteredTable(t, label) ==
    IF t = <<>> THEN <<>>
    ELSE IF label[Head(t).id] = 0 THEN ClusteredTable(Tail(t), label)
    ELSE <<[id |-> Head(t).id, node |-> Head(t).node,
            cluster_id |-> label[Head(t).id]]>>
            \o ClusteredTable(Tail(t), label)

\* lines 210-213: the column cluster_id of the full table; a row of a source
\* the loop does not visit keeps the nan the new column starts with
AddClusterId(t, cdf) ==
    [p \in 1..Len(t) |->
        [cluster_id |->
            IF \E q \in 1..Len(cdf) : cdf[q].id = t[p].id
            THEN Rat(cdf[CHOOSE q \in 1..Len(cdf) :
                            /\ cdf[q].id = t[p].id
                            /\ \A o \in 1..(q - 1) : cdf[o].id # t[p].id].cluster_id, 1)
            ELSE NaN] @@ t[p]]

\* x['cluster_id'].nunique() of the group of a node: nan is not counted
nunique(t, node) ==
    Cardinality({t[p].cluster_id : p \in {q \in 1..Len(t) : t[q].node = node}}
                    \ {NaN})

\* a slip that keeps every node that has a cluster at all
NodeKept_AnyCluster(t, node) == nunique(t, node) >= 1

\* the lambda of line 216
NodeKept(t, node) == nunique(t, node) = 1

\* line 216: the rows of the groups that pass the filter
FilterNodes(t) == SelectSeq(t, LAMBDA row : NodeKept(t, row.node))

\* lines 222-227: the rows of the sources of cluster c whose drainage area is
\* above the threshold
ClusterRows(t, cdf, c) ==
    LET these_sources == {cdf[q].id : q \in {o \in 1..Len(cdf) : cdf[o].cluster_id = c}}
    IN SelectSeq(t, LAMBDA row : row.id \in these_sources
                                    /\ row.drainage_area > area_t)

SlopesCsv == "data/dem_slopes.csv"

ClusteredCsv == "out/dem_profiles_clustered_SO1.csv"

PlotSlopeAreaAllProfiles ==
    /\ pc = "start"
    /\ cluster_df' = fs[ClusteredCsv]
    /\ df' = FilterNodes(AddClusterId(fs[SlopesCsv], fs[ClusteredCsv]))
    /\ filter_df' =
          [c \in {fs[ClusteredCsv][q].cluster_id : q \in 1..Len(fs[ClusteredCsv])} |->
              ClusterRows(FilterNodes(AddClusterId(fs[SlopesCsv], fs[ClusteredCsv])),
                          fs[ClusteredCsv], c)]
    /\ pc' = "PlotSlopeAreaAllProfiles_done"
    /\ UNCHANGED <<exc, slope_window_size, array, value, idx>>
    /\ UNCHANGED <<profile_len, step, thinned_df, data, final_sources>>
    /\ UNCHANGED <<min_corr, method, cc, dd, ln, cl>>
    /\ UNCHANGED <<args, DataDirectory, fs, trace>>

InitSlopeArea ==
    /\ pc = "start"
    /\ exc = "none"
    /\ \E n \in 1..MaxSources :
          \E t \in SlopeAreaTables(n) :
             \E label \in [1..n -> 0..2] :
                /\ \E s \in 1..n : label[s] # 0
                /\ fs = (SlopesCsv :> t) @@ (ClusteredCsv :> ClusteredTable(t, label))
    /\ df = <<>>
    /\ cluster_df = <<>>
    /\ filter_df = <<>>
    /\ args = <<>>
    /\ DataDirectory = "data/"
    /\ trace = <<>>
    /\ slope_window_size = 0
    /\ array = <<>>
    /\ value = 0
    /\ idx = 0
    /\ profile_len = 0
    /\ step = 0
    /\ thinned_df = <<>>
    /\ data = <<>>
    /\ final_sources = <<>>
    /\ min_corr = [s |-> 0, q |-> 1]
    /\ method = ""
    /\ cc = <<>>
    /\ dd = <<>>
    /\ ln = <<>>
    /\ cl = <<>>

NextSlopeArea == PlotSlopeAreaAllProfiles

SpecSlopeArea == InitSlopeArea /\ [][NextSlopeArea]_vars

(***************************************************************************)
(* Claims about PlotSlopeAreaAllProfiles (checked under SpecSlopeArea).    *)
(***************************************************************************)
SlopeAreaDone == pc = "PlotSlopeAreaAllProfiles_done"

\* the cluster of a source in the clustered file, 0 when it has none
ClusterOf(source) ==
    IF \E q \in 1..Len(fs[ClusteredCsv]) : fs[ClusteredCsv][q].id = source
    THEN (CHOOSE row \in Range(fs[ClusteredCsv]) : row.id = source).cluster_id
    ELSE 0

\* the clusters of the sources that pass through a node in the slopes file
ClustersAt(node) ==
    {ClusterOf(row.id) : row \in {r \in Range(fs[SlopesCsv]) : r.node = node}} \ {0}

\* C23: after the propagation and the filter, the rows of every remaining
\* node carry exactly one cluster id; a node shared by sources of two
\* different clusters has no row left; and the slope-area rows of a cluster
\* are rows of sources of that cluster only, never of a source without one.
C23_OneClusterPerNode ==
    SlopeAreaDone =>
        /\ \A p \in 1..Len(df) :
              Cardinality({df[q].cluster_id :
                              q \in {o \in 1..Len(df) : df[o].node = df[p].node}}
                          \ {NaN}) = 1
        /\ \A row \in Range(fs[SlopesCsv]) :
              Cardinality(ClustersAt(row.node)) >= 2 =>
                  \A p \in 1..Len(df) : df[p].node # row.node
        /\ \A c \in DOMAIN filter_df :
              \A k \in 1..Len(filter_df[c]) :
                  /\ ClusterOf(filter_df[c][k].id) = c
                  /\ Cardinality(ClustersAt(filter_df[c][k].node)) = 1

\* node 4 is shared by a source of cluster 1 and a source of cluster 2 and is
\* gone; a headwater node of a clustered source is kept and is in its
\* cluster's rows; a source without a cluster is in the slopes file
C23_Witness ==
    /\ SlopeAreaDone
    /\ ClustersAt(4) = {1, 2}
    /\ \A p \in 1..Len(df) : df[p].node # 4
    /\ \E c \in DOMAIN filter_df : filter_df[c] # <<>>
    /\ \E row \in Range(fs[SlopesCsv]) : ClusterOf(row.id) = 0

(***************************************************************************)
(* plot-river-clusters.py, PlotProfilesByCluster after ClusterProfiles:    *)
(* the loop over the clusters and the csv (lines 304-336), as a function   *)
(* of the clustered table.  The table holds up to MaxClusters clusters,    *)
(* numbered from 1 as fcluster numbers them, of one or two sources each,   *)
(* one row per source.                                                     *)
(***************************************************************************)
MaxClusters == 7   \* clustered tables of up to MaxClusters clusters

\* line 307
colors == <<"g", "r", "m", "y", "k", "c">>

\* a Python list index i is in bounds (a negative one counts from the end)
InBounds(list, i) == -Len(list) <= i /\ i < Len(list)

\* the clustered table of clusters 1..Len(sizes), cluster c having sizes[c]
\* sources; source ids are 10*c + 1 and 10*c + 2
ColourTable(sizes) ==
    LET rows(c) == [k \in 1..sizes[c] |->
                      [id |-> 10 * c + k,
                       distance_from_source |-> 0,
                       slope |-> Rat(1, c),
                       cluster_id |-> c]]
        F[c \in 0..Len(sizes)] == IF c = 0 THEN <<>> ELSE F[c - 1] \o rows(c)
    IN F[Len(sizes)]

\* cluster_df['cluster_id'].unique(): the ids in order of first appearance
RECURSIVE UniqueFrom(_, _, _)
UniqueFrom(cdf, p, seen) ==
    IF p > Len(cdf) THEN seen
    ELSE IF \E k \in 1..Len(seen) : seen[k] = cdf[p].cluster_id
    THEN UniqueFrom(cdf, p + 1, seen)
    ELSE UniqueFrom(cdf, p + 1, Append(seen, cdf[p].cluster_id))

UniqueClusters(cdf) == UniqueFrom(cdf, 1, <<>>)

\* lines 309-331: one figure per cluster; a cluster of more than one source
\* is drawn in colors[cl-1], a cluster of one source in 'b'; the figures
\* saved so far are in saved when an index is out of range
RECURSIVE PlotLoop(_, _, _)
PlotLoop(clusters, cdf, saved) ==
    IF clusters = <<>> THEN [exc |-> "none", saved |-> saved]
    ELSE LET c == Head(clusters)
             sources == {cdf[p].id : p \in {q \in 1..Len(cdf) : cdf[q].cluster_id = c}}
         IN IF Cardinality(sources) > 1 /\ ~InBounds(colors, c - 1)
            THEN [exc |-> "IndexError", saved |-> saved]
            ELSE PlotLoop(Tail(clusters), cdf, Append(saved, c))

\* lines 304-336: the loop, then cluster_df.to_csv
PlotClusters ==
    /\ pc = "PlotProfilesByCluster_305"
    /\ \E r \in {PlotLoop(UniqueClusters(cluster_df), cluster_df, <<>>)} :
          /\ exc' = r.exc
          /\ trace' = trace \o r.saved
          /\ IF r.exc = "none"
             THEN /\ fs' = (DataDirectory \o "dem" \o "_profiles_clustered.csv"
                               :> cluster_df) @@ fs
                  /\ pc' = "PlotProfilesByCluster_done"
             ELSE /\ pc' = "raised"
                  /\ UNCHANGED fs
    /\ UNCHANGED <<df, slope_window_size, array, value, idx>>
    /\ UNCHANGED <<profile_len, step, thinned_df, data, final_sources>>
    /\ UNCHANGED <<min_corr, method, cc, dd, ln, cl, cluster_df>>
    /\ UNCHANGED <<args, DataDirectory, filter_df>>

InitColours ==
    /\ pc = "PlotProfilesByCluster_305"
    /\ exc = "none"
    /\ \E n \in 1..MaxClusters :
          \E sizes \in [1..n -> 1..2] : cluster_df = ColourTable(sizes)
    /\ DataDirectory = "data/"
    /\ fs = <<>>
    /\ trace = <<>>
    /\ filter_df = <<>>
    /\ args = <<>>
    /\ df = <<>>
    /\ slope_window_size = 0
    /\ array = <<>>
    /\ value = 0
    /\ idx = 0
    /\ profile_len = 0
    /\ step = 0
    /\ thinned_df = <<>>
    /\ data = <<>>
    /\ final_sources = <<>>
    /\ min_corr = [s |-> 0, q |-> 1]
    /\ method = ""
    /\ cc = <<>>
    /\ dd = <<>>
    /\ ln = <<>>
    /\ cl = <<>>

NextColours == PlotClusters

SpecColours == InitColours /\ [][NextColours]_vars

BuildsPath == pc \in {"main_81", "main_87", "PlotProfilesByCluster_295"}

\* C25 (as claimed): in both scripts, wherever a file path is built as
\* DataDirectory + fname_prefix + suffix, DataDirectory ends with '/',
\* whether -dir was given (with or without a trailing slash) or the current
\* working directory is used.
C25_DirectoryEndsWithSlash == BuildsPath => EndsWithSlash(DataDirectory)

====
